---- MODULE Spec2Model ----
(***************************************************************************)
(* A model of michaeldickens/Frequency: the frequency hash table of        *)
(* src/FreqHash.c and the scanning engine of src/frequency.c.              *)
(*                                                                         *)
(* Conventions of the model                                                *)
(*  - a byte is its ASCII code; a C string is the sequence of its bytes    *)
(*    (without the terminating NUL); the NULL pointer is the value NULL;   *)
(*  - a double is an exact rational <<n, d>> in lowest terms with d > 0;   *)
(*    <<0, 0>> is an indeterminate (never initialised) double and          *)
(*    <<1, 0>> the result of dividing a positive number by zero;           *)
(*  - hash->buckets is a function whose domain holds the slots whose       *)
(*    pairs pointer is not NULL (hash_malloc zeroes the bucket array, so   *)
(*    a slot outside the domain is {pairs = NULL, length = 0});            *)
(*  - a bucket's pairs is the sequence of the cells of its allocation:     *)
(*    C's pairs[j] is pairs[j + 1] here;                                   *)
(*  - err = "crash" is a run the operating system stopped (a NULL          *)
(*    dereference, or an access outside an allocation that faulted).       *)
(***************************************************************************)
EXTENDS Integers, Sequences, FiniteSets, TLC

VARIABLES
    hash,       \* the Hash the operations work on
    err,        \* "ok", or "crash" once the process has faulted
    ret,        \* what the last call of the hash API returned
    app,        \* where the last call of hash_put / hash_inc appended
    ref,        \* history: key -> the value the calls so far give it
    putKeys,    \* history: the keys hash_put was called with
    nops,       \* history: the number of hash_put / hash_inc calls so far
    buffer,     \* the file as read_file left it: buffer[0 .. length], buffer[length] = NUL
    length,     \* the number of bytes read_file read
    alloc,      \* the size of the allocation read_file made for buffer
    regex,      \* freq_read_file's regex, the bytes of the string
    overlap,    \* freq_read_file's overlap
    multiplier, \* the multiplier of the file being read
    pc,         \* where the run is: "idle", "scan", "ret", "words", "done"
    pass,       \* which call of freq_scan is running: 1 counts (hash == NULL), 2 fills
    i,          \* the scan offset i of freq_scan and of find_n_words_for_file
    matches,    \* freq_scan's matches
    sret,       \* what the last call of freq_scan returned
    count,      \* freq_read_file's count
    adjusted_multiplier, \* freq_read_file's adjusted_multiplier
    entry,      \* history: buffer as it was when the running freq_scan was entered
    ncalls,     \* history: the calls of regexec the running freq_scan has made
    last,       \* history: the last match of freq_scan and what became of it
    stall,      \* history: the loop iterations that left i where it was
    tally,      \* history: the hash_inc calls of the second pass
    wordcount,  \* find_n_words_for_file's wordcount
    next_i,     \* find_n_words_for_file's next_i
    inserted,   \* history: the keys find_n_words_for_file passed to hash_inc
    fret,       \* what freq_read_file returned
    view,       \* the array hash_sort last produced (*res, *length)
    other,      \* a second Hash, the src of hash_merge
    calls       \* history: the pairs the last hash_foreach passed to f

hashVars == <<hash, err, ret, app, ref, putKeys, nops>>
fileVars == <<buffer, length, alloc, regex, overlap, multiplier, pc>>
scanVars == <<pass, i, matches, sret, count, adjusted_multiplier, entry, ncalls,
              last, stall, tally, fret>>
wordVars == <<wordcount, next_i, inserted>>
scanVarsButI == <<pass, matches, sret, count, adjusted_multiplier, entry, ncalls,
                  last, stall, tally, fret>>
apiVars == <<view, other, calls>>
vars == <<hashVars, fileVars, scanVars, wordVars, apiVars>>

----------------------------------------------------------------------------
(* Program constants *)

DEFAULT_CAPACITY == 10
RESIZE_MIN == 16
\* sizeof(Bucket) where pointers and size_t are 8 bytes wide
SizeofBucket == 16
\* sizeof(Pair): a pointer and a double
SizeofPair == 16
MAX_WORD_LEN == 1000
\* read_file's first tmp_length and the factor it grows by
ReadChunk == 256
ReadGrowth == 4
\* freq_scan's return value when regexec reports REG_ESPACE
ScanNoMemory == -4

----------------------------------------------------------------------------
(* Bounds of the model *)

\* Spec: the number of hash_put / hash_inc calls of a run
MaxOps == 3
\* SpecLoad: the number of distinct keys a run loads
NKeys == 25
\* SpecLoad: how many of the first keys loaded share one slot
NCollide == 17
\* SpecLoad: the number of calls on a key already loaded
MaxRepeat == 1
\* SpecScan: the length of the short files
MaxLen == 3
\* SpecScan: the long files have MAX_WORD_LEN + 1 .. MAX_WORD_LEN + MaxOver bytes
MaxOver == 2
\* SpecScan: regexec may report REG_ESPACE in the first MaxEspaceCalls calls of a scan
MaxEspaceCalls == 2
\* SpecScan: the loop iterations of one freq_scan call a run follows
MaxMatches == 4
\* SpecWords: the length of the files and the largest wordcount
MaxWLen == 5
MaxN == 2

----------------------------------------------------------------------------
(* Doubles *)

Abs(x) == IF x < 0 THEN -x ELSE x

RECURSIVE GCD(_, _)
GCD(a, b) == IF b = 0 THEN a ELSE GCD(b, a % b)

\* n / d in lowest terms, the sign in the numerator
Rat(n, d) ==
    IF d = 0 THEN <<IF n > 0 THEN 1 ELSE IF n < 0 THEN -1 ELSE 0, 0>>
    ELSE LET g == GCD(Abs(n), Abs(d))
             s == IF d < 0 THEN -1 ELSE 1
         IN  <<(s * n) \div g, (s * d) \div g>>

INDET == <<0, 0>>

\* x + y on doubles
RatAdd(x, y) ==
    IF x[2] = 0 THEN x
    ELSE IF y[2] = 0 THEN y
    ELSE Rat(x[1] * y[2] + y[1] * x[2], x[2] * y[2])

\* a conversion that rounds toward minus infinity instead
ToLongFloor(x) == IF x[1] >= 0 THEN x[1] \div x[2] ELSE -((-x[1] + x[2] - 1) \div x[2])

\* the conversion of a double to long: truncation toward zero
ToLong(x) == IF x[1] >= 0 THEN x[1] \div x[2] ELSE -((-x[1]) \div x[2])

----------------------------------------------------------------------------
(* src/FreqHash.c *)

NULL == <<-1>>

\* a Pair of memory hash_malloc has zeroed
ZeroPair == [key |-> NULL, value |-> <<0, 1>>]
\* a Pair of memory realloc has added, once its key is set to NULL
JunkPair == [key |-> NULL, value |-> INDET]

RECURSIVE FillBits(_)
\* x with every bit below its highest 1 bit set (x |= x >> 1; ... x >> 32)
FillBits(x) == IF x = 0 THEN 0 ELSE 2 * FillBits(x \div 2) + 1

next_power_of_2(x) == FillBits(x) + 1

\* next_size without the rounding up to a power of two
NextSizeExact(x) == IF x < RESIZE_MIN THEN RESIZE_MIN ELSE x

next_size(x) == IF x < RESIZE_MIN THEN RESIZE_MIN ELSE next_power_of_2(x)

RECURSIVE IsPow2(_)
IsPow2(x) == x = 1 \/ (x > 1 /\ x % 2 = 0 /\ IsPow2(x \div 2))

\* x >= RESIZE_MIN && !(x & (x - 1))
resize_p(x) == x >= RESIZE_MIN /\ IsPow2(x)

\* size_t arithmetic wraps at 2^64.  The hash is only ever used modulo the
\* table length, a power of two that stays below HashMod in every run of the
\* model, so the model keeps the hash modulo HashMod.
HashMod == 2^22

RECURSIVE HashFold(_, _, _)
HashFold(key, n, x) ==
    IF n > Len(key) THEN x ELSE HashFold(key, n + 1, (33 * x + key[n]) % HashMod)

hash_function(key) == HashFold(key, 1, 5381)

hash_init_capacity(capacity) ==
    [buckets |-> [s \in {} |-> 0], length |-> next_size(capacity), count |-> 0]

hash_init == hash_init_capacity(DEFAULT_CAPACITY)

\* What a call gives back to the model: the table, whether the call ran to
\* its end ("ok") or dereferenced NULL ("segv"), whether it wrote outside
\* an allocation, and where it appended (NoApp when it did not).
NoApp == [slot |-> -1, n |-> 0, idx |-> 0, cap |-> 0, kept |-> TRUE]

Res(h, status, oob, a) == [hash |-> h, status |-> status, oob |-> oob, app |-> a]

RECURSIVE FindFrom(_, _, _)
\* for (j = 0; j < bucket.length; ++j) if (strcmp(pairs[j].key, key) == 0) ...
FindFrom(b, key, j) ==
    IF j >= b.length THEN [kind |-> "missing", j |-> j]
    ELSE IF j >= Len(b.pairs) \/ b.pairs[j + 1].key = NULL
         THEN [kind |-> "segv", j |-> j]
    ELSE IF b.pairs[j + 1].key = key THEN [kind |-> "found", j |-> j]
    ELSE FindFrom(b, key, j + 1)

FindPair(b, key) == FindFrom(b, key, 0)

\* The index at which the new pair is written: j is left at the bucket's
\* length by the search loop, and at the end of the reallocated storage by
\* the loop that sets the new cells' keys to NULL.
AppendIndex(n) == IF resize_p(n) THEN next_size(n + 1) ELSE n

\* The bucket after "Resize the bucket if necessary" and "Put the new pair at
\* the end of the bucket".
BucketAppend(b, key, value) ==
    LET n == b.length
        grown == IF resize_p(n)
                 THEN [c \in 1..next_size(n + 1) |->
                          IF c <= n THEN b.pairs[c] ELSE JunkPair]
                 ELSE b.pairs
        j == AppendIndex(n)
        inside == j < Len(grown)
        pairs == IF inside
                 THEN [grown EXCEPT ![j + 1] = [key |-> key, value |-> value]]
                 ELSE grown
    IN  [bucket |-> [pairs |-> pairs, length |-> n + 1],
         oob |-> ~inside,
         n |-> n, idx |-> j, cap |-> Len(grown),
         kept |-> \A c \in 1..n : pairs[c] = b.pairs[c]]

\* "The bucket does not exist. Create a new bucket and put the pair in it."
BucketNew(key, value) ==
    [pairs |-> [c \in 1..next_size(1) |->
                   IF c = 1 THEN [key |-> key, value |-> value] ELSE ZeroPair],
     length |-> 1]

Min(S) == CHOOSE x \in S : \A y \in S : x <= y

RECURSIVE SlotSeq(_)
\* the allocated slots in the order for (i = 0; i < length; ++i) visits them
SlotSeq(S) == IF S = {} THEN <<>> ELSE LET m == Min(S) IN <<m>> \o SlotSeq(S \ {m})

RECURSIVE PairsOf(_, _, _)
\* the pairs the two nested loops over buckets[i].pairs[j], j < length, visit
PairsOf(h, slots, n) ==
    IF n > Len(slots) THEN <<>>
    ELSE LET b == h.buckets[slots[n]]
         IN  [c \in 1..b.length |->
                 IF c <= Len(b.pairs) THEN b.pairs[c] ELSE JunkPair]
             \o PairsOf(h, slots, n + 1)

Entries(h) == PairsOf(h, SlotSeq(DOMAIN h.buckets), 1)

RECURSIVE hash_put(_, _, _)
RECURSIVE hash_resize(_)
RECURSIVE PutAll(_, _, _, _)

\* the result r of a nested call, as the result of the call that made it
Outer(r, oob, a) == Res(r.hash, r.status, oob \/ r.oob, a)

\* ++hash->count; if (hash->count * 100 > hash->length * 75) hash_resize(hash);
AfterInsert(h, oob, a) ==
    LET h1 == [h EXCEPT !.count = @ + 1]
    IN  IF h1.count * 100 > h1.length * 75
        THEN Outer(hash_resize(h1), oob, a)
        ELSE Res(h1, "ok", oob, a)

\* the bucket x.bucket put in its slot
Place(h, slot, x) ==
    AfterInsert([h EXCEPT !.buckets = (slot :> x.bucket) @@ @], x.oob,
                [slot |-> slot, n |-> x.n, idx |-> x.idx, cap |-> x.cap,
                 kept |-> x.kept])

\* the path of hash_put and hash_inc for a key the bucket does not hold
Insert(h, slot, key, value) ==
    Place(h, slot,
          IF slot \in DOMAIN h.buckets
          THEN BucketAppend(h.buckets[slot], key, value)
          ELSE [bucket |-> BucketNew(key, value), oob |-> FALSE,
                n |-> 0, idx |-> 0, cap |-> next_size(1), kept |-> TRUE])

\* a call that adds value to the value of a key it finds
PutAdding(h, key, value) ==
    LET slot == hash_function(key) % h.length
        f == IF slot \in DOMAIN h.buckets THEN FindPair(h.buckets[slot], key)
             ELSE [kind |-> "missing", j |-> 0]
    IN  CASE f.kind = "segv" -> Res(h, "segv", FALSE, NoApp)
          [] f.kind = "found" ->
               Res([h EXCEPT !.buckets[slot].pairs[f.j + 1].value = RatAdd(@, value)],
                   "ok", FALSE, NoApp)
          [] OTHER -> Insert(h, slot, key, value)

hash_put(h, key, value) ==
    LET slot == hash_function(key) % h.length
        f == IF slot \in DOMAIN h.buckets THEN FindPair(h.buckets[slot], key)
             ELSE [kind |-> "missing", j |-> 0]
    IN  CASE f.kind = "segv" -> Res(h, "segv", FALSE, NoApp)
          [] f.kind = "found" ->
               Res([h EXCEPT !.buckets[slot].pairs[f.j + 1].value = value],
                   "ok", FALSE, NoApp)
          [] OTHER -> Insert(h, slot, key, value)

hash_inc(h, key, value) ==
    LET slot == hash_function(key) % h.length
        f == IF slot \in DOMAIN h.buckets THEN FindPair(h.buckets[slot], key)
             ELSE [kind |-> "missing", j |-> 0]
    IN  CASE f.kind = "segv" -> Res(h, "segv", FALSE, NoApp)
          [] f.kind = "found" ->
               Res([h EXCEPT !.buckets[slot].pairs[f.j + 1].value = RatAdd(@, value)],
                   "ok", FALSE, NoApp)
          [] OTHER -> Insert(h, slot, key, value)

RECURSIVE PutNext(_, _, _, _)
\* the loops of hash_resize: hash_put(&res, key, value) for every key != NULL
PutAll(res, es, n, oob) ==
    IF n > Len(es) THEN Res(res, "ok", oob, NoApp)
    ELSE IF es[n].key = NULL THEN PutAll(res, es, n + 1, oob)
    ELSE PutNext(hash_put(res, es[n].key, es[n].value), es, n, oob)

\* the loops go on after the call that returned r (unless it crashed)
PutNext(r, es, n, oob) ==
    IF r.status # "ok" THEN Outer(r, oob, NoApp)
    ELSE PutAll(r.hash, es, n + 1, oob \/ r.oob)

\* hash_clear(hash); *hash = res;  leaves res in place of the old table
hash_resize(h) ==
    PutAll(hash_init_capacity(SizeofBucket * next_size(h.length)), Entries(h), 1, FALSE)

\* the value a call returns when the key is not found
NotFound == -1

hash_get(h, key) ==
    LET slot == hash_function(key) % h.length
        f == IF slot \in DOMAIN h.buckets THEN FindPair(h.buckets[slot], key)
             ELSE [kind |-> "missing", j |-> 0]
    IN  CASE f.kind = "segv" -> [status |-> "segv", val |-> 0]
          [] f.kind = "found" ->
               [status |-> "ok", val |-> ToLong(h.buckets[slot].pairs[f.j + 1].value)]
          [] OTHER -> [status |-> "ok", val |-> NotFound]

hash_exists(h, key) ==
    LET slot == hash_function(key) % h.length
        f == IF slot \in DOMAIN h.buckets THEN FindPair(h.buckets[slot], key)
             ELSE [kind |-> "missing", j |-> 0]
    IN  CASE f.kind = "segv" -> [status |-> "segv", val |-> 0]
          [] f.kind = "found" -> [status |-> "ok", val |-> 1]
          [] OTHER -> [status |-> "ok", val |-> 0]

----------------------------------------------------------------------------
(* The hash API as actions *)

\* the value the table stores for key: the pair a search of the key's bucket
\* over its live cells finds (Absent when there is none)
Absent == <<0, -1>>

Stored(h, key) ==
    LET s == hash_function(key) % h.length
    IN  IF s \notin DOMAIN h.buckets THEN Absent
        ELSE LET b == h.buckets[s]
                 hits == {c \in 1..b.length : c <= Len(b.pairs) /\ b.pairs[c].key = key}
             IN  IF hits = {} THEN Absent ELSE b.pairs[Min(hits)].value

NoRet == [op |-> "none", key |-> NULL, val |-> 0]

\* How a call that ended with `status` leaves the process: a write outside
\* an allocation is undefined behaviour, which the build may survive or not.
Outcomes(status, oob) ==
    IF status # "ok" THEN {"crash"}
    ELSE IF oob THEN {"ok", "crash"}
    ELSE {"ok"}

\* the outcomes of two steps of one action
Both(o1, o2) == IF o1 = {"crash"} \/ o2 = {"crash"} THEN {"crash"} ELSE o1 \cup o2

\* what a call of hash_put / hash_inc that returned r leaves, in an action
\* whose other steps have the outcomes `also`
Returned(r, also) ==
    /\ hash' = r.hash
    /\ err' \in Both(also, Outcomes(r.status, r.oob))
    /\ app' = r.app

\* a call hash_inc(&hash, k, v)
CallInc(k, v, also) ==
    /\ Returned(hash_inc(hash, k, v), also)
    /\ ret' = [op |-> "inc", key |-> k, val |-> 0]
    /\ ref' = IF k \in DOMAIN ref THEN [ref EXCEPT ![k] = RatAdd(@, v)]
              ELSE (k :> v) @@ ref
    /\ UNCHANGED putKeys
    /\ nops' = nops + 1

Put(k, v) ==
    /\ err = "ok"
    /\ Returned(hash_put(hash, k, v), {"ok"})
    /\ ret' = [op |-> "put", key |-> k, val |-> 0]
    /\ ref' = (k :> v) @@ ref
    /\ putKeys' = putKeys \cup {k}
    /\ nops' = nops + 1
    /\ UNCHANGED <<fileVars, scanVars, wordVars, apiVars>>

Inc(k, v) ==
    /\ err = "ok"
    /\ CallInc(k, v, {"ok"})
    /\ UNCHANGED <<fileVars, scanVars, wordVars, apiVars>>

Get(k) ==
    /\ err = "ok"
    /\ LET r == hash_get(hash, k)
       IN  /\ err' \in Outcomes(r.status, FALSE)
           /\ ret' = [op |-> "get", key |-> k, val |-> r.val]
    /\ UNCHANGED <<hash, app, ref, putKeys, nops, fileVars, scanVars, wordVars, apiVars>>

Exists(k) ==
    /\ err = "ok"
    /\ LET r == hash_exists(hash, k)
       IN  /\ err' \in Outcomes(r.status, FALSE)
           /\ ret' = [op |-> "exists", key |-> k, val |-> r.val]
    /\ UNCHANGED <<hash, app, ref, putKeys, nops, fileVars, scanVars, wordVars, apiVars>>

InitHash(h) ==
    /\ hash = h
    /\ err = "ok"
    /\ ret = NoRet
    /\ app = NoApp
    /\ ref = [k \in {} |-> 0]
    /\ putKeys = {}
    /\ nops = 0

NoLast == [at |-> -1, so |-> 0, eo |-> 0, cap |-> 0, key |-> NULL, ins |-> FALSE]
NoTally == [incs |-> 0, drops |-> 0, added |-> <<0, 1>>, weights |-> {}]

\* no file is being read
InitFile ==
    /\ buffer = [k \in 0..0 |-> 0]
    /\ length = 0
    /\ alloc = 0
    /\ regex = <<>>
    /\ overlap = FALSE
    /\ multiplier = 0
    /\ pc = "idle"
    /\ pass = 0
    /\ i = 0
    /\ matches = 0
    /\ sret = 0
    /\ count = 0
    /\ adjusted_multiplier = <<0, 1>>
    /\ entry = [k \in 0..0 |-> 0]
    /\ ncalls = 0
    /\ last = NoLast
    /\ stall = 0
    /\ tally = NoTally
    /\ wordcount = 0
    /\ next_i = 0
    /\ inserted = <<>>
    /\ fret = 0

----------------------------------------------------------------------------
(* src/frequency.c: reading a file *)

isprint(c) == c \in 32..126
isalnum(c) == c \in 48..57 \/ c \in 65..90 \/ c \in 97..122
tolower(c) == IF c \in 65..90 THEN c + 32 ELSE c

RECURSIVE AllocFor(_, _)
\* read_file's tmp_length once n bytes are read: it is multiplied by 4
\* whenever the byte about to be stored has the index tmp_length
AllocFor(n, t) == IF n <= t THEN t ELSE AllocFor(n, t * ReadGrowth)

\* read_file, then filter_chars: the bytes of the file in lower case and
\* the terminating NUL at index length
ReadFile(file) ==
    [k \in 0..Len(file) |-> IF k < Len(file) THEN tolower(file[k + 1]) ELSE 0]

----------------------------------------------------------------------------
(* src/frequency.c: freq_read_file and freq_scan *)

\* the regular expressions of the model, as the bytes of their strings
FREQ_CHARS == <<46>>                                    \* "."
FREQ_DIGRAPHS == <<46, 46>>                             \* ".."
FREQ_LETTER_CHARS == <<91, 97, 45, 122, 93>>            \* "[a-z]"
FREQ_FIRST_LETTER ==                                    \* "([a-z])[a-z]*"
    <<40, 91, 97, 45, 122, 93, 41, 91, 97, 45, 122, 93, 42>>
LETTER_RUN == <<91, 97, 45, 122, 93, 42>>               \* "[a-z]*"

Regexes == {FREQ_CHARS, FREQ_DIGRAPHS, FREQ_LETTER_CHARS, FREQ_FIRST_LETTER, LETTER_RUN}

\* bool overlap = true; if (strchr(regex, '+') || strchr(regex, '*')) overlap = false;
Overlap(rx) == ~(\E n \in 1..Len(rx) : rx[n] = 43 \/ rx[n] = 42)

\* [a-z] under REG_ICASE
Letter(c) == c \in 97..122 \/ c \in 65..90

RECURSIVE RunEnd(_, _, _)
\* the end of the run of letters of b that starts at p, in a string ending at e
RunEnd(b, p, e) == IF p < e /\ Letter(b[p]) THEN RunEnd(b, p + 1, e) ELSE p

NoMatch == [ret |-> "REG_NOMATCH", so |-> 0, eo |-> 0, sso |-> 0, seo |-> 0]
Match(so, eo, sso, seo) == [ret |-> "0", so |-> so, eo |-> eo, sso |-> sso, seo |-> seo]

\* the match of "[a-z]" (run = FALSE) or of "([a-z])[a-z]*" (run = TRUE)
\* whose first letter is at p
LetterMatch(b, from, e, p, run) ==
    IF run THEN Match(p - from, RunEnd(b, p, e) - from, p - from, p + 1 - from)
    ELSE Match(p - from, p + 1 - from, -1, -1)

\* regexec(&compiled, buffer + from, 2, matchptr, 0) when it does not run out
\* of memory: the leftmost, longest match in the string b[from .. e - 1],
\* offsets counted from `from`; (so, eo) is matchptr[0] and (sso, seo) is
\* matchptr[1], which is (-1, -1) when the expression has no subexpression.
regexec(rx, b, from, e) ==
    LET letters == {p \in from..(e - 1) : Letter(b[p])}
    IN  CASE rx = FREQ_CHARS ->
               IF e - from >= 1 THEN Match(0, 1, -1, -1) ELSE NoMatch
          [] rx = FREQ_DIGRAPHS ->
               IF e - from >= 2 THEN Match(0, 2, -1, -1) ELSE NoMatch
          [] rx = LETTER_RUN ->
               Match(0, RunEnd(b, from, e) - from, -1, -1)
          [] rx = FREQ_LETTER_CHARS ->
               IF letters = {} THEN NoMatch
               ELSE LetterMatch(b, from, e, Min(letters), FALSE)
          [] rx = FREQ_FIRST_LETTER ->
               IF letters = {} THEN NoMatch
               ELSE LetterMatch(b, from, e, Min(letters), TRUE)

\* buffer[i + MAX_WORD_LEN], the byte freq_scan overwrites with NUL
CapIndex == i + MAX_WORD_LEN

\* buffer while regexec and freq_hash_inc run
Capped == IF CapIndex <= length THEN [buffer EXCEPT ![CapIndex] = 0] ELSE buffer

\* An access at index p of buffer: inside the allocation it is defined (or,
\* past the terminating NUL, reads what malloc left there); outside it the
\* build may survive it or not.
Access(p) == IF p >= alloc THEN {"ok", "crash"} ELSE {"ok"}

\* the end of the C string that starts at b[from]
StrEnd(b, from) == Min({k \in from..length : b[k] = 0})

\* legal_chars reads sequence[n] after sequence has been incremented n times
LegalReads(start, len) == {start + 2 * n : n \in 0..(len - 1)}

LegalByte(c) == isprint(c) \/ c = 10 \/ c = 9

\* What legal_chars(buffer + start, len) may return.  A byte past the
\* terminating NUL is the NUL freq_scan wrote at CapIndex or else whatever
\* the memory holds.
legal_chars(b, start, len) ==
    LET reads == LegalReads(start, len)
        known == {p \in reads : p <= length}
        wild == {p \in reads : p > length /\ p # CapIndex}
    IN  IF \E p \in known : ~LegalByte(b[p]) THEN {FALSE}
        ELSE IF \E p \in reads : p > length /\ p = CapIndex THEN {FALSE}
        ELSE IF wild # {} THEN {TRUE, FALSE}
        ELSE {TRUE}

\* the part of the match freq_hash_inc takes as the key: the first
\* subexpression when it is not empty, the whole match otherwise
KeyStart(m) == IF m.sso # m.seo THEN i + m.sso ELSE i + m.so
KeyLen(m) == IF m.sso # m.seo THEN m.seo - m.sso ELSE m.eo - m.so
KeyOf(b, m) == [n \in 1..KeyLen(m) |-> b[KeyStart(m) + n - 1]]

\* an advance to the end of the match in both modes
AdvanceToEnd(m) == i + m.eo

\* if (overlap) i += matchptr[0].rm_so + 1; else i += matchptr[0].rm_eo;
Advance(m) == IF overlap THEN i + m.so + 1 ELSE i + m.eo

\* a weight that is not divided by the count
AdjustedMultiplierRaw(m, c) == Rat(m, 1)

\* (double) multiplier / count
AdjustedMultiplier(m, c) == Rat(m, c)

\* what regexec finds at the scan offset i
Found == regexec(regex, Capped, i, StrEnd(Capped, i))

\* freq_read_file up to its first call of freq_scan, which counts the
\* matches: regcomp, read_file, filter_chars, freq_scan(NULL, ...)
FreqReadFile(file, rx, m) ==
    /\ pc = "idle"
    /\ err = "ok"
    /\ buffer' = ReadFile(file)
    /\ length' = Len(file)
    /\ alloc' = AllocFor(Len(file), ReadChunk)
    /\ err' \in IF Len(file) >= AllocFor(Len(file), ReadChunk)
                THEN {"ok", "crash"} ELSE {"ok"}
    /\ regex' = rx
    /\ overlap' = Overlap(rx)
    /\ multiplier' = m
    /\ pc' = "scan"
    /\ pass' = 1
    /\ i' = 0
    /\ matches' = 0
    /\ entry' = ReadFile(file)
    /\ ncalls' = 0
    /\ stall' = 0
    /\ last' = NoLast
    /\ tally' = NoTally
    /\ UNCHANGED <<hash, ret, app, ref, putKeys, nops, sret, count,
                   adjusted_multiplier, fret, wordVars, apiVars>>

\* a loop iteration of freq_scan is about to run
Scanning == pc = "scan" /\ err = "ok" /\ i < length /\ matches < MaxMatches

\* the end of a loop iteration in which regexec matched m
Iterated(m, key, ins) ==
    /\ i' = Advance(m)
    /\ stall' = IF Advance(m) = i THEN stall + 1 ELSE stall
    /\ matches' = matches + 1
    /\ ncalls' = ncalls + 1
    /\ last' = [at |-> i, so |-> m.so, eo |-> m.eo, cap |-> CapIndex,
                key |-> key, ins |-> ins]
    /\ UNCHANGED <<fileVars, pass, sret, count, adjusted_multiplier, entry, fret,
                   wordVars, apiVars>>

\* an iteration of the first pass (hash == NULL) in which regexec matches
ScanCount ==
    /\ Scanning
    /\ pass = 1
    /\ Found.ret = "0"
    /\ Iterated(Found, NULL, FALSE)
    /\ err' \in Access(CapIndex)
    /\ UNCHANGED <<hash, ret, app, ref, putKeys, nops, tally>>

\* an iteration of the second pass in which regexec matches and legal_chars
\* accepts the key: freq_hash_inc calls hash_inc
ScanInsert ==
    /\ Scanning
    /\ pass = 2
    /\ Found.ret = "0"
    /\ TRUE \in legal_chars(Capped, KeyStart(Found), KeyLen(Found))
    /\ Iterated(Found, KeyOf(Capped, Found), TRUE)
    /\ CallInc(KeyOf(Capped, Found), adjusted_multiplier,
               Both(Access(CapIndex),
                    UNION {Access(p) : p \in LegalReads(KeyStart(Found), KeyLen(Found))}
                    \cup {"ok"}))
    /\ tally' = [incs |-> tally.incs + 1, drops |-> tally.drops,
                 added |-> RatAdd(tally.added, adjusted_multiplier),
                 weights |-> tally.weights \cup {adjusted_multiplier}]

\* an iteration of the second pass in which regexec matches and legal_chars
\* rejects the key
ScanDiscard ==
    /\ Scanning
    /\ pass = 2
    /\ Found.ret = "0"
    /\ FALSE \in legal_chars(Capped, KeyStart(Found), KeyLen(Found))
    /\ Iterated(Found, KeyOf(Capped, Found), FALSE)
    /\ err' \in Both(Access(CapIndex),
                     UNION {Access(p) : p \in LegalReads(KeyStart(Found), KeyLen(Found))}
                     \cup {"ok"})
    /\ tally' = [tally EXCEPT !.drops = @ + 1]
    /\ UNCHANGED <<hash, ret, app, ref, putKeys, nops>>

\* freq_scan returns r from inside the loop, the NUL still in place
Left(r) ==
    /\ buffer' = Capped
    /\ sret' = r
    /\ pc' = "ret"
    /\ ncalls' = ncalls + 1
    /\ err' \in Access(CapIndex)
    /\ UNCHANGED <<hash, ret, app, ref, putKeys, nops, length, alloc, regex, overlap,
                   multiplier, pass, i, matches, count, adjusted_multiplier, entry,
                   last, stall, tally, fret, wordVars, apiVars>>

\* an iteration in which regexec finds no match: break, and the return
\* after the loop
ScanBreak ==
    /\ Scanning
    /\ Found.ret = "REG_NOMATCH"
    /\ Left(IF pass = 1 THEN matches ELSE 0)

\* an iteration in which regexec runs out of memory: return -4
ScanEspace ==
    /\ Scanning
    /\ ncalls < MaxEspaceCalls
    /\ Left(ScanNoMemory)

\* the loop ends because i >= length, and freq_scan returns
ScanExit ==
    /\ pc = "scan"
    /\ err = "ok"
    /\ i >= length
    /\ sret' = IF pass = 1 THEN matches ELSE 0
    /\ pc' = "ret"
    /\ UNCHANGED <<hashVars, buffer, length, alloc, regex, overlap, multiplier, pass,
                   i, matches, count, adjusted_multiplier, entry, ncalls, last,
                   stall, tally, fret, wordVars, apiVars>>

\* freq_read_file between the two calls of freq_scan:
\* count = freq_scan(NULL, ...); adjusted_multiplier = (double) multiplier / count;
\* freq_scan(hash, ...)
SecondPass ==
    /\ pc = "ret"
    /\ err = "ok"
    /\ pass = 1
    /\ count' = sret
    /\ adjusted_multiplier' = AdjustedMultiplier(multiplier, sret)
    /\ pass' = 2
    /\ pc' = "scan"
    /\ i' = 0
    /\ matches' = 0
    /\ entry' = buffer
    /\ ncalls' = 0
    /\ stall' = 0
    /\ last' = NoLast
    /\ UNCHANGED <<hashVars, buffer, length, alloc, regex, overlap, multiplier,
                   sret, tally, fret, wordVars, apiVars>>

\* freq_read_file after the second call of freq_scan: free(buffer);
\* regfree(&compiled); return matches;
Finish ==
    /\ pc = "ret"
    /\ err = "ok"
    /\ pass = 2
    /\ pc' = "done"
    /\ fret' = 0
    /\ UNCHANGED <<hashVars, buffer, length, alloc, regex, overlap, multiplier,
                   pass, i, matches, sret, count, adjusted_multiplier, entry,
                   ncalls, last, stall, tally, wordVars, apiVars>>

----------------------------------------------------------------------------
(* src/frequency.c: find_n_words_for_file *)

RECURSIVE SkipSep(_)
\* while (i < length && !isalnum(buffer[i])) ++i;
SkipSep(p) == IF p < length /\ ~isalnum(buffer[p]) THEN SkipSep(p + 1) ELSE p

RECURSIVE WordEnd(_)
\* while (i < length && (isalnum(buffer[i]) || buffer[i] == '\'')) words[j++] = buffer[i++];
WordEnd(p) ==
    IF p < length /\ (isalnum(buffer[p]) \/ buffer[p] = 39) THEN WordEnd(p + 1) ELSE p

\* if (buffer[i-1] == '\'') { --i; --j; }
Trimmed(e) == IF buffer[e - 1] = 39 THEN e - 1 ELSE e

\* the bytes buffer[from .. to - 1]
Bytes(from, to) == [n \in 1..(to - from) |-> buffer[from + n - 1]]

RECURSIVE ForLoop(_, _, _, _)
\* a turn that sets next_i whatever k is, so that the next window starts
\* after the last word of this one
TurnedByN(k, p, words, nx) == ForLoop(k + 1, p, words, p)

\* the end of one turn of the for loop: if (k == 0) next_i = i; ++k
Turned(k, p, words, nx) == ForLoop(k + 1, p, words, IF k = 0 THEN p ELSE nx)

\* one turn of the for loop once the separators are skipped and the space
\* is written: the word at p, if there is one, is copied
Word(k, p, words, nx) ==
    IF p < length /\ isalnum(buffer[p])
    THEN Turned(k, Trimmed(WordEnd(p)), words \o Bytes(p, Trimmed(WordEnd(p))), nx)
    ELSE Turned(k, p, words, nx)

\* for (k = 0; i < length && k < wordcount; ++k) { ... } from the state
\* (k, i, words, next_i): the state in which the loop ends
ForLoop(k, p, words, nx) ==
    IF p < length /\ k < wordcount
    THEN Word(k, SkipSep(p), IF k > 0 THEN Append(words, 32) ELSE words, nx)
    ELSE [k |-> k, i |-> p, words |-> words, next_i |-> nx]

\* the for loop of one iteration of the while loop: i = next_i; j = 0; for ...
Window == ForLoop(0, next_i, <<>>, next_i)

\* find_n_words_for_file up to the while loop: read_file, filter_chars
FindNWordsForFile(file, wc, m) ==
    /\ pc = "idle"
    /\ err = "ok"
    /\ buffer' = ReadFile(file)
    /\ length' = Len(file)
    /\ alloc' = AllocFor(Len(file), ReadChunk)
    /\ wordcount' = wc
    /\ multiplier' = m
    /\ i' = 0
    /\ next_i' = 0
    /\ inserted' = <<>>
    /\ pc' = "words"
    /\ UNCHANGED <<hashVars, regex, overlap, scanVarsButI, apiVars>>

\* an iteration of the while loop in which the for loop ends with
\* k == wordcount: hash_inc(hash, words, multiplier)
WordsInsert ==
    /\ pc = "words"
    /\ err = "ok"
    /\ i < length
    /\ Window.k = wordcount
    /\ i' = Window.i
    /\ next_i' = Window.next_i
    /\ inserted' = Append(inserted, Window.words)
    /\ CallInc(Window.words, Rat(multiplier, 1), {"ok"})
    /\ UNCHANGED <<fileVars, wordcount, scanVarsButI, apiVars>>

\* an iteration of the while loop in which the for loop ends with
\* k < wordcount: break, return 0
WordsBreak ==
    /\ pc = "words"
    /\ err = "ok"
    /\ i < length
    /\ Window.k # wordcount
    /\ i' = Window.i
    /\ next_i' = Window.next_i
    /\ pc' = "done"
    /\ UNCHANGED <<hashVars, buffer, length, alloc, regex, overlap, multiplier,
                   wordcount, inserted, scanVarsButI, apiVars>>

\* the while loop ends because i >= length: return 0
WordsExit ==
    /\ pc = "words"
    /\ err = "ok"
    /\ i >= length
    /\ pc' = "done"
    /\ UNCHANGED <<hashVars, buffer, length, alloc, regex, overlap, multiplier,
                   wordVars, scanVars, apiVars>>

----------------------------------------------------------------------------
(* src/FreqHash.c: hash_clear, hash_sort, hash_foreach, hash_merge *)

\* hash_clear frees the keys, the pairs and the buckets and sets length to
\* 0; count is left as it is
hash_clear(h) == [buckets |-> [s \in {} |-> 0], length |-> 0, count |-> h.count]

\* xp->value > yp->value for two doubles; a NaN compares false with everything
Greater(x, y) == x[2] # 0 /\ y[2] # 0 /\ x[1] * y[2] > y[1] * x[2]

\* pair_comparator(x, y) < 0: x is sorted before y
Before(x, y) == Greater(x.value, y.value)

RECURSIVE SortedInto(_, _)
\* the sorted sequence s with the pair x put before the first pair it is
\* sorted before
SortedInto(x, s) ==
    IF s = <<>> THEN <<x>>
    ELSE IF Before(x, Head(s)) THEN <<x>> \o s
    ELSE <<Head(s)>> \o SortedInto(x, Tail(s))

RECURSIVE qsort(_, _)
\* qsort(*res, k, sizeof(Pair), &pair_comparator) on the first n pairs of
\* es.  qsort leaves the order of pairs that compare equal unspecified; the
\* model takes one such order.
qsort(es, n) == IF n = 0 THEN <<>> ELSE SortedInto(es[n], qsort(es, n - 1))

\* the pairs hash_sort copies, an indeterminate double read as junk
Copied(es, junk) ==
    [n \in 1..Len(es) |->
        IF es[n].value = INDET THEN [key |-> es[n].key, value |-> junk] ELSE es[n]]

\* the array and its length once the pairs es are copied and sorted
SortedView(es, h, junk) ==
    [view |-> [res |-> qsort(Copied(es, junk), Len(es)),
               length |-> Len(es),
               keysOf |-> h.length],
     oob |-> Len(es) * SizeofPair > SizeofBucket * h.count]

\* hash_sort(&res, &length, hash): *res has room for sizeof(Bucket) *
\* hash.count bytes; every cell below the length of its bucket is copied,
\* its key pointer included, and keysOf remembers the table whose key
\* strings the copies point to (the table of that length)
hash_sort(h, junk) == SortedView(Entries(h), h, junk)

\* (*f)(key, value) for a callback that returns f[key] for the keys of
\* DOMAIN f and 0 for every other key
Callback(f, key) == IF key \in DOMAIN f THEN f[key] ELSE 0

RECURSIVE ForeachFrom(_, _, _, _)
\* the loops of hash_foreach from the n-th cell on, f called on `called` so far
ForeachFrom(es, n, f, called) ==
    IF n > Len(es) THEN [ret |-> 0, calls |-> called]
    ELSE IF es[n].key = NULL THEN ForeachFrom(es, n + 1, f, called)
    ELSE IF Callback(f, es[n].key) # 0
         THEN [ret |-> Callback(f, es[n].key), calls |-> Append(called, es[n])]
    ELSE ForeachFrom(es, n + 1, f, Append(called, es[n]))

\* a loop that calls f on every pair with a key, whatever f returns
ForeachAll(h, f) ==
    [ret |-> 0,
     calls |-> SelectSeq(Entries(h), LAMBDA e : e.key # NULL)]

hash_foreach(h, f) == ForeachFrom(Entries(h), 1, f, <<>>)

RECURSIVE MergeFrom(_, _, _, _)
\* the loops go on after the call of hash_inc that returned r
MergeNext(r, es, n, oob) ==
    IF r.status # "ok" THEN Outer(r, oob, NoApp)
    ELSE MergeFrom(r.hash, es, n + 1, oob \/ r.oob)

\* the loops of hash_merge from the n-th cell of src on: hash_inc(dest, key,
\* value) for every cell below the length of its bucket; hash_function
\* dereferences the key, so a NULL key stops the process
MergeFrom(dest, es, n, oob) ==
    IF n > Len(es) THEN Res(dest, "ok", oob, NoApp)
    ELSE IF es[n].key = NULL THEN Res(dest, "segv", oob, NoApp)
    ELSE MergeNext(hash_inc(dest, es[n].key, es[n].value), es, n, oob)

hash_merge(dest, src) == MergeFrom(dest, Entries(src), 1, FALSE)

RECURSIVE Summed(_, _, _)
\* history: the values the calls so far give the keys once the pairs of es,
\* from the n-th on, are added
Summed(r, es, n) ==
    IF n > Len(es) THEN r
    ELSE IF es[n].key = NULL THEN Summed(r, es, n + 1)
    ELSE Summed(IF es[n].key \in DOMAIN r
                THEN [r EXCEPT ![es[n].key] = RatAdd(@, es[n].value)]
                ELSE (es[n].key :> es[n].value) @@ r,
                es, n + 1)

\* hash_sort(&res, &length, hash)
Sort(junk) ==
    /\ err = "ok"
    /\ view' = hash_sort(hash, junk).view
    /\ err' \in Outcomes("ok", hash_sort(hash, junk).oob)
    /\ ret' = [op |-> "sort", key |-> NULL, val |-> 0]
    /\ UNCHANGED <<hash, app, ref, putKeys, nops, other, calls,
                   fileVars, scanVars, wordVars>>

\* hash_clear(&hash)
Clear ==
    /\ err = "ok"
    /\ hash' = hash_clear(hash)
    /\ ret' = [op |-> "clear", key |-> NULL, val |-> 0]
    /\ UNCHANGED <<err, app, ref, putKeys, nops, apiVars, fileVars, scanVars, wordVars>>

\* hash_foreach(hash, f)
Foreach(f) ==
    /\ err = "ok"
    /\ calls' = hash_foreach(hash, f).calls
    /\ ret' = [op |-> "foreach", key |-> f, val |-> hash_foreach(hash, f).ret]
    /\ UNCHANGED <<hash, err, app, ref, putKeys, nops, view, other,
                   fileVars, scanVars, wordVars>>

\* hash_merge(&hash, other)
Merge ==
    /\ err = "ok"
    /\ Returned(hash_merge(hash, other), {"ok"})
    /\ ret' = [op |-> "merge", key |-> NULL, val |-> 0]
    /\ ref' = Summed(ref, Entries(other), 1)
    /\ nops' = nops + Len(Entries(other))
    /\ UNCHANGED <<putKeys, apiVars, fileVars, scanVars, wordVars>>

\* no array sorted, no second table loaded, no hash_foreach called
NoView == [res |-> <<>>, length |-> -1, keysOf |-> -1]

InitApi ==
    /\ view = NoView
    /\ other = hash_init
    /\ calls = <<>>

\* main: hash_init(&hash)
Init == InitHash(hash_init) /\ InitFile /\ InitApi

----------------------------------------------------------------------------
(* Spec: a few calls on a table of the default capacity.  "a" and "q" share
   a slot of the 16, "b" has its own. *)

Keys == {<<97>>, <<113>>, <<98>>}
Values == {<<-1, 1>>, <<0, 1>>, <<1, 2>>, <<2, 1>>}

Next ==
    \/ \E k \in Keys, v \in Values : nops < MaxOps /\ Put(k, v)
    \/ \E k \in Keys, v \in Values : nops < MaxOps /\ Inc(k, v)
    \/ \E k \in Keys : Get(k)
    \/ \E k \in Keys : Exists(k)

Spec == Init /\ [][Next]_vars

----------------------------------------------------------------------------
(* SpecLoad: many keys loaded one after the other with hash_inc, each with
   the count 1, into a table of 16 or of 32 slots.  The first NCollide keys
   are the two-letter keys whose letters add up to 'a' + 'z' ("az", "by",
   ...): they share slot 0 of a table of 16 or 32 slots.  The others are the
   one-letter keys "a", "b", ...  A run also makes MaxRepeat calls of
   hash_inc or hash_put on keys already loaded. *)

KeyAt(n) == IF n <= NCollide THEN <<96 + n, 123 - n>> ELSE <<96 + n - NCollide>>
One == <<1, 1>>
Capacities == {DEFAULT_CAPACITY, 2 * DEFAULT_CAPACITY}
NLoaded == Cardinality(DOMAIN ref)

InitLoad == (\E c \in Capacities : InitHash(hash_init_capacity(c))) /\ InitFile /\ InitApi

LoadNew == NLoaded < NKeys /\ Inc(KeyAt(NLoaded + 1), One)

NextLoad ==
    \/ LoadNew
    \/ \E k \in DOMAIN ref : nops - NLoaded < MaxRepeat /\ Inc(k, One)
    \/ \E k \in DOMAIN ref : nops - NLoaded < MaxRepeat /\ Put(k, One)

SpecLoad == InitLoad /\ [][NextLoad]_vars

----------------------------------------------------------------------------
(* SpecScan: freq_read_file on one file.  The short files are all the files
   of at most MaxLen bytes over "a", " " and the control character 0x01; the
   long files are a letter followed by spaces, a little longer than
   MAX_WORD_LEN. *)

Alphabet == {97, 32, 1}
ShortFiles == UNION {[1..n -> Alphabet] : n \in 0..MaxLen}
LongFile(n) == [k \in 1..n |-> IF k = 1 THEN 97 ELSE 32]
LongFiles == {LongFile(MAX_WORD_LEN + o) : o \in 1..MaxOver}
Multipliers == {1, 5}

NextScan ==
    \/ \E file \in ShortFiles \cup LongFiles, rx \in Regexes, m \in Multipliers :
          FreqReadFile(file, rx, m)
    \/ ScanCount
    \/ ScanInsert
    \/ ScanDiscard
    \/ ScanBreak
    \/ ScanEspace
    \/ ScanExit
    \/ SecondPass
    \/ Finish

SpecScan == Init /\ [][NextScan]_vars

----------------------------------------------------------------------------
(* SpecWords: find_n_words_for_file on one file of at most MaxWLen bytes
   over "a", " " and "'", for the word counts 1 .. MaxN. *)

WordAlphabet == {97, 32, 39}
WordFiles == UNION {[1..n -> WordAlphabet] : n \in 0..MaxWLen}

NextWords ==
    \/ \E file \in WordFiles, wc \in 1..MaxN, m \in Multipliers :
          FindNWordsForFile(file, wc, m)
    \/ WordsInsert
    \/ WordsBreak
    \/ WordsExit

SpecWords == Init /\ [][NextWords]_vars

----------------------------------------------------------------------------
(* SpecApi: a table of 16 or 32 slots loaded key by key as in SpecLoad, on
   which hash_put, hash_sort, hash_foreach, hash_merge and hash_clear are
   called.  hash_foreach, hash_merge and hash_clear end a run; after
   hash_sort a run makes one more call that changes the table. *)

RECURSIVE Loaded(_, _, _)
\* the table h after hash_inc of the pairs of ps from the n-th on
Loaded(h, ps, n) ==
    IF n > Len(ps) THEN h
    ELSE Loaded(hash_inc(h, ps[n].key, ps[n].value).hash, ps, n + 1)

\* the tables hash_merge is called with as src
Sources ==
    {Loaded(hash_init, <<[key |-> KeyAt(1), value |-> <<1, 2>>],
                         [key |-> KeyAt(NCollide), value |-> <<2, 1>>]>>, 1),
     Loaded(hash_init, <<[key |-> KeyAt(NCollide + 1), value |-> One]>>, 1)}

\* the callbacks hash_foreach is called with: the keys they stop at and the
\* nonzero values they return for them
Callbacks ==
    {[k \in {} |-> 0],
     KeyAt(1) :> 7,
     KeyAt(2) :> -2,
     (KeyAt(2) :> -2) @@ (KeyAt(1) :> 7),
     KeyAt(NCollide + 1) :> 7,
     KeyAt(NCollide) :> 7}

\* what an indeterminate double may be read as: a number or a NaN
JunkValues == {<<0, 1>>, <<5, 1>>, INDET}

InitApiLoad ==
    /\ \E c \in Capacities : InitHash(hash_init_capacity(c))
    /\ InitFile
    /\ view = NoView
    /\ other \in Sources
    /\ calls = <<>>

\* the run goes on
Running == err = "ok" /\ ret.op \notin {"foreach", "merge", "clear"}
\* the run may change the table
Mutable == Running /\ (view = NoView \/ ret.op = "sort")

NextApi ==
    \/ Mutable /\ NLoaded < NKeys /\ Inc(KeyAt(NLoaded + 1), One)
    \/ \E k \in {KeyAt(1), KeyAt(NLoaded)} \cap DOMAIN ref :
          Mutable /\ putKeys = {} /\ Put(k, <<3, 1>>)
    \/ Mutable /\ Merge
    \/ Mutable /\ Clear
    \/ \E junk \in JunkValues : Running /\ view = NoView /\ Sort(junk)
    \/ \E f \in Callbacks : Running /\ view = NoView /\ Foreach(f)

SpecApi == InitApiLoad /\ [][NextApi]_vars

----------------------------------------------------------------------------
(* The properties *)

\* C1: the value stored for a key that has only ever been passed to
\* hash_inc is the sum of the values of those calls, whatever insertions of
\* other keys, rehashes included, come in between.
C1_IncSum ==
    err = "ok" => \A k \in DOMAIN ref \ putKeys : Stored(hash, k) = ref[k]

\* C2: after any sequence of hash_put / hash_inc calls, hash.count is the
\* number of distinct keys inserted and count * 100 <= length * 75.
C2_CountAndLoad ==
    err = "ok" =>
        /\ hash.count = Cardinality(DOMAIN ref)
        /\ hash.count * 100 <= hash.length * 75

\* C3: a key appended to a bucket of n live entries is stored at index n,
\* inside the storage of the bucket, and the n earlier entries are unchanged,
\* the growth points n = 16, 32, ... included.
C3_AppendInside ==
    app.slot # -1 => app.idx = app.n /\ app.idx < app.cap /\ app.kept

\* t is the double n / d converted to long
IsTruncation(t, v) ==
    IF v[1] >= 0 THEN t * v[2] <= v[1] /\ v[1] < (t + 1) * v[2]
    ELSE t * v[2] >= v[1] /\ v[1] > (t - 1) * v[2]

Normalized == pc = "done" /\ err = "ok" /\ sret = 0 /\ count > 0

C6_BufferRestored ==
    (pc = "ret" /\ err = "ok") => buffer = entry

\* C7: a match of the second pass is inserted if and only if every byte of
\* its key is printable or a newline or a tab.
C7_InsertedIffLegal ==
    (pass = 2 /\ last.at # -1 /\ err = "ok") =>
        (last.ins <=> \A n \in 1..Len(last.key) : LegalByte(last.key[n]))

\* key is n non-empty words joined by single spaces
IsWindow(key, n) ==
    /\ Len(key) > 0
    /\ key[1] # 32
    /\ key[Len(key)] # 32
    /\ \A c \in 1..(Len(key) - 1) : ~(key[c] = 32 /\ key[c + 1] = 32)
    /\ Cardinality({c \in 1..Len(key) : key[c] = 32}) = n - 1

\* C8: every key find_n_words_for_file inserts consists of exactly
\* wordcount non-empty words joined by single spaces.
C8_NoPartialWindow ==
    \A n \in 1..Len(inserted) : IsWindow(inserted[n], wordcount)

RECURSIVE WordsFrom(_)
\* the words of the buffer from p on: separators skipped, a word being a
\* run of alphanumeric bytes and apostrophes without its trailing apostrophe
WordsFrom(p) ==
    IF p >= length THEN <<>>
    ELSE IF ~isalnum(buffer[p]) THEN WordsFrom(p + 1)
    ELSE <<Bytes(p, Trimmed(WordEnd(p)))>> \o WordsFrom(Trimmed(WordEnd(p)))

RECURSIVE Joined(_, _, _)
\* the n words of ws from the one of index `from` on, joined by single spaces
Joined(ws, from, n) ==
    IF n = 1 THEN ws[from] ELSE ws[from] \o <<32>> \o Joined(ws, from + 1, n - 1)

\* the keys 1 .. Len(ws) - n + 1 are the windows of n words of ws, and all
\* of them are there once the function has returned
Slides(ws, n) ==
    Len(ws) >= n =>
        /\ \A c \in 1..Len(inserted) :
              c <= Len(ws) - n + 1 => inserted[c] = Joined(ws, c, n)
        /\ pc = "done" => Len(inserted) >= Len(ws) - n + 1

\* C9: for a buffer of words w1 .. wm with m >= wordcount = N, the i-th key
\* find_n_words_for_file inserts, i = 1 .. m - N + 1, is w_i .. w_{i+N-1}
\* joined by single spaces: the window slides by one word.
C9_SlidesByOneWord ==
    (pc \in {"words", "done"} /\ err = "ok") => Slides(WordsFrom(0), wordcount)

\* C9, reached: two windows of two words inserted from a buffer of at
\* least three words
C9_TwoWindows ==
    /\ pc = "done"
    /\ err = "ok"
    /\ wordcount = 2
    /\ Len(WordsFrom(0)) >= 3
    /\ Len(inserted) >= 2

\* C10: the scan offset i strictly increases on every loop iteration of
\* freq_scan.
C10_OffsetIncreases ==
    [][(pc = "scan" /\ pc' = "scan" /\ pass' = pass) => i' > i]_vars

\* the (key, value) pairs the table holds: the cells below the length of each
\* bucket that have a key
WithKey(es) == {es[n] : n \in {c \in 1..Len(es) : es[c].key # NULL}}
Live(h) == WithKey(Entries(h))

\* the step is an insertion that rehashed the table
Rehashed == hash'.length # hash.length /\ hash.length > 0 /\ err' = "ok"

\* C11: every rehash triggered by an insertion replaces the table by one
\* that has exactly twice as many slots.
C11_RehashDoubles ==
    [][Rehashed => hash'.length = 2 * hash.length]_vars

\* C12: a rehash preserves the contents of the map: the table after the
\* insertion that rehashed holds the pairs it held before and the pair
\* inserted, its count is one more, and it is the table hash_resize
\* allocated (no re-insertion rehashed it again).
Grown(before, after) ==
    before \subseteq after /\ Cardinality(after) = Cardinality(before) + 1

C12_RehashPreserves ==
    [][Rehashed =>
          /\ Grown(Live(hash), Live(hash'))
          /\ hash'.count = hash.count + 1
          /\ hash'.length =
                hash_init_capacity(SizeofBucket * next_size(hash.length)).length]_vars

\* C13: after any later mutation of the map, every pair of a view hash_sort
\* produced still has a valid key: the key strings the pairs point to are
\* those of the table now in place, none of them freed.
C13_ViewIndependent ==
    (err = "ok" /\ view.length > 0) => view.keysOf = hash.length

\* C14: the array hash_sort returns has its values in non-increasing order,
\* its length is hash.count, and its pairs are the pairs of the map, each
\* once.
EachOnce(res, live) ==
    /\ \A n \in 1..Len(res) : res[n] \in live
    /\ \A e \in live : Cardinality({n \in 1..Len(res) : res[n] = e}) = 1

C14_SortedView ==
    (ret.op = "sort" /\ err = "ok") =>
        /\ \A n \in 1..(Len(view.res) - 1) :
              ~Greater(view.res[n + 1].value, view.res[n].value)
        /\ view.length = hash.count
        /\ Len(view.res) = view.length
        /\ EachOnce(view.res, Live(hash))

\* the value table h holds for key, 0 when it holds none
ValueIn(h, key) == IF Stored(h, key) = Absent THEN <<0, 1>> ELSE Stored(h, key)

KeysOf(h) == {e.key : e \in Live(h)}

\* after holds the keys of dest and src, each with the sum of its values
SumOf(dest, src, after, keys) ==
    /\ KeysOf(after) = keys
    /\ \A k \in keys : Stored(after, k) = RatAdd(ValueIn(dest, k), ValueIn(src, k))

\* C15: hash_merge(dest, src) leaves src unchanged, and afterwards dest maps
\* each key to the sum of its prior dest value (0 if absent) and its src
\* value (0 if absent).
C15_MergeSums ==
    [][(ret'.op = "merge" /\ ret.op # "merge" /\ err' = "ok") =>
          /\ other' = other
          /\ SumOf(hash, other, hash', KeysOf(hash) \cup KeysOf(other))]_vars

\* C19: hash_foreach calls f once for each pair of the map as long as f
\* returns 0; at the first call where f returns a nonzero value it makes no
\* further call and returns that value; if f never returns nonzero it
\* returns 0.
StopsAtFirst(live, f, called, r) ==
    /\ \A n \in 1..Len(called) : called[n] \in live
    /\ \A n, m \in 1..Len(called) : called[n] = called[m] => n = m
    /\ \A n \in 1..(Len(called) - 1) : Callback(f, called[n].key) = 0
    /\ IF Len(called) > 0 /\ Callback(f, called[Len(called)].key) # 0
       THEN r = Callback(f, called[Len(called)].key)
       ELSE r = 0 /\ Len(called) = Cardinality(live)

C19_ForeachStops ==
    (ret.op = "foreach" /\ err = "ok") => StopsAtFirst(Live(hash), ret.key, calls, ret.val)

\* C19, reached: f has stopped the loop at its third call or later, before
\* the last pair
C19_StoppedEarly ==
    /\ ret.op = "foreach"
    /\ err = "ok"
    /\ ret.val # 0
    /\ Len(calls) >= 3
    /\ Len(calls) < Cardinality(Live(hash))

\* the pairs are the same but for the value of key
SameBut(before, after, key) ==
    /\ {e \in after : e.key # key} = {e \in before : e.key # key}
    /\ {e.key : e \in after} = {e.key : e \in before}

\* C20: hash_put on a key already present overwrites the value of the key
\* and leaves the item count and every other entry unchanged.
C20_PutOverwrites ==
    [][(ret'.op = "put" /\ nops' = nops + 1 /\ err' = "ok"
          /\ ret'.key \in KeysOf(hash)) =>
          /\ Stored(hash', ret'.key) = ref'[ret'.key]
          /\ hash'.count = hash.count
          /\ hash'.length = hash.length
          /\ SameBut(Live(hash), Live(hash'), ret'.key)]_vars

\* C20, reached: two calls on one key, the second a hash_put of another
\* value, leave one item
C20_PutTwice ==
    /\ ret.op = "put"
    /\ err = "ok"
    /\ nops = 2
    /\ DOMAIN ref = {ret.key}
    /\ hash.count = 1
    /\ Stored(hash, ret.key) = <<2, 1>>

\* C16: when regexec reports REG_ESPACE during either scan pass,
\* freq_read_file returns -4, and -4 is never used as the match count of the
\* normalization.
C16_EspacePropagates ==
    /\ pass = 2 => count # -4
    /\ (pc = "done" /\ (count = -4 \/ sret = -4)) => fret = -4

\* C17: when the counting pass finds zero matches the division
\* multiplier / match_count is not performed: the weight is never the result
\* of a division by zero.
C17_ZeroGuarded ==
    adjusted_multiplier[2] # 0

\* C18: after a match found from the offset last.at, with start last.so and
\* end last.eo counted from it, the next attempt starts one byte after the
\* start of the match when overlap is enabled and at the end of the match
\* when it is disabled; and with the pattern "." a counting pass that runs
\* to its end over n bytes finds n matches, each of length 1.
C18_Advance ==
    err = "ok" =>
        /\ last.at # -1 =>
              i = IF overlap THEN last.at + last.so + 1 ELSE last.at + last.eo
        /\ (regex = FREQ_CHARS /\ last.at # -1) => last.eo - last.so = 1
        /\ (regex = FREQ_CHARS /\ pc = "ret" /\ pass = 1 /\ sret # -4) =>
              sret = length

\* C18, reached: three matches counted in a file of three bytes
C18_ThreeMatches ==
    /\ err = "ok"
    /\ regex = FREQ_CHARS
    /\ overlap
    /\ pc = "ret"
    /\ pass = 1
    /\ length = 3
    /\ sret = 3

\* the table is allocated: no call went wrong and hash_clear has not freed it
Initialized == err = "ok" /\ ret.op # "clear"

\* C21: in every state of an initialized map the slot count hash.length is a
\* power of two and at least RESIZE_MIN (16), and no operation other than
\* hash_clear makes it smaller.  (The capacities are those of tables that
\* fit in memory: next_power_of_2 wraps to 0 only from 2^63 on.)
C21_SlotCount ==
    /\ [](Initialized => IsPow2(hash.length) /\ hash.length >= RESIZE_MIN)
    /\ [][(err' = "ok" /\ ret'.op # "clear") => hash'.length >= hash.length]_vars

\* C21, reached: a table that was rehashed, by hash_inc or within hash_merge
C21_Rehashed ==
    /\ Initialized
    /\ hash.length > next_size(2 * DEFAULT_CAPACITY)
    /\ hash.count >= 13

\* C22: the index i + MAX_WORD_LEN at which an iteration of freq_scan saved
\* a byte and wrote NUL is at most length, the index of the terminating NUL
\* of the buffer, whatever the length of the buffer and the offset i.
C22_CapInside ==
    (last.at # -1 /\ err = "ok") => last.cap <= length

====
